---- MODULE Spec2Model ----
(***************************************************************************)
(* Lead qualification API: the lead-scoring pipeline.                      *)
(*                                                                         *)
(*   RuleScoringService   src/src/config/constants.ts  227-356             *)
(*   AIScoringService     src/src/config/constants.ts   47-211             *)
(*   LeadScoringService   src/unnamed/part_002          19-126             *)
(*                                                                         *)
(* JavaScript strings are sequences of one-character strings, so that      *)
(* toLowerCase, toUpperCase, trim, includes, startsWith, replace and split *)
(* are computed character by character.  A JavaScript value is a record    *)
(* [t, v]: t is the runtime type ("string", "undefined", "number",         *)
(* "array") and v its content.  TypeScript's types are erased at run time, *)
(* so a Lead field may hold a value that is not a string; the code's       *)
(* try/catch blocks exist for exactly those runs.                          *)
(***************************************************************************)
EXTENDS Integers, Sequences, FiniteSets, TLC

VARIABLES
    apiKey,       \* process.env.OPENAI_API_KEY
    entry,        \* the method the caller invoked: "none", "scoreLead", "scoreLeads",
                  \* "calculateRuleScore", "scoreLeadRepeatedly" (scoreLead, call after call)
    leads,        \* scoreLeads' parameter leads (scoreLead: the one lead)
    offer,        \* the parameter offer
    pc,           \* "idle", "awaiting" (suspended on the external call), "returned", "rejected"
    idx,          \* position in leads of the lead being scored (for ... of)
    ruleScore,    \* scoreLead's local ruleScore while suspended
    scoredLeads,  \* scoreLeads' local scoredLeads; the returned array once pc = "returned"
    aiLog,        \* history: every value scoreWithAI returned in this call, with its path
    callLog,      \* history: positions of the leads for which the external call was dispatched
    ruleResult,   \* what a direct call of calculateRuleScore returned
    previous,     \* history: the calls of scoreLead that settled before the current one
    uploadedLeads,          \* LeadController.uploadedLeads
    controllerScoredLeads,  \* LeadController.scoredLeads
    currentOffer,           \* OfferController.currentOffer
    upload,       \* the uploadLeads request in flight: its position, and the value
                  \* uploadedLeads had when the request arrived
    lastResponse  \* the response sent last, with the request it answers

vars == <<apiKey, entry, leads, offer, pc, idx, ruleScore, scoredLeads, aiLog, callLog,
          ruleResult, previous,
          uploadedLeads, controllerScoredLeads, currentOffer, upload, lastResponse>>

\* the state of the two controllers and of their clients
session == <<uploadedLeads, controllerScoredLeads, currentOffer, upload, lastResponse>>

(***************************************************************************)
(* Bounds of the model.                                                    *)
(***************************************************************************)
\* longest batch handed to scoreLeads
MaxBatch == 3
\* most calls of scoreLead one caller makes in a row
MaxCalls == 3

(***************************************************************************)
(* Configuration tables.                                                   *)
(***************************************************************************)
SCORING_WEIGHTS ==
    [ ROLE         |-> [DECISION_MAKER |-> 20, INFLUENCER |-> 10, OTHERS |-> 0],
      INDUSTRY     |-> [EXACT_MATCH |-> 20, ADJACENT |-> 10, OTHERS |-> 0],
      COMPLETENESS |-> [ALL_FIELDS |-> 10],
      AI           |-> [HIGH |-> 50, MEDIUM |-> 30, LOW |-> 10] ]

DECISION_MAKER_ROLES ==
    << <<"C","E","O">>,
       <<"C","T","O">>,
       <<"C","F","O">>,
       <<"C","O","O">>,
       <<"C","M","O">>,
       <<"C","P","O">>,
       <<"V","P">>,
       <<"D","i","r","e","c","t","o","r">>,
       <<"H","e","a","d"," ","o","f">>,
       <<"C","h","i","e","f">>,
       <<"P","r","e","s","i","d","e","n","t">>,
       <<"O","w","n","e","r">>,
       <<"F","o","u","n","d","e","r">>,
       <<"C","o","-","f","o","u","n","d","e","r">>,
       <<"M","a","n","a","g","i","n","g"," ","D","i","r","e","c","t","o","r">> >>

INFLUENCER_ROLES ==
    << <<"M","a","n","a","g","e","r">>,
       <<"L","e","a","d">>,
       <<"S","e","n","i","o","r">>,
       <<"P","r","i","n","c","i","p","a","l">>,
       <<"A","r","c","h","i","t","e","c","t">>,
       <<"C","o","n","s","u","l","t","a","n","t">>,
       <<"S","p","e","c","i","a","l","i","s","t">>,
       <<"A","d","v","i","s","o","r">>,
       <<"S","t","r","a","t","e","g","i","s","t">> >>

ICP_INDUSTRIES ==
    [ EXACT |->
        << <<"B","2","B"," ","S","a","a","S">>,
           <<"S","o","f","t","w","a","r","e">>,
           <<"T","e","c","h","n","o","l","o","g","y">>,
           <<"S","a","a","S">> >>,
      ADJACENT |->
        << <<"I","T"," ","S","e","r","v","i","c","e","s">>,
           <<"C","o","n","s","u","l","t","i","n","g">>,
           <<"D","i","g","i","t","a","l"," ","M","a","r","k","e","t","i","n","g">>,
           <<"E","-","c","o","m","m","e","r","c","e">>,
           <<"F","i","n","t","e","c","h">> >> ]

INTENT_THRESHOLDS == [HIGH |-> 70, MEDIUM |-> 40]

\* highValueKeywords without 'automation'
highValueKeywordsShort ==
    << <<"s","c","a","l","e">>,
       <<"g","r","o","w","t","h">>,
       <<"A","I">>,
       <<"e","f","f","i","c","i","e","n","c","y">>,
       <<"p","r","o","d","u","c","t","i","v","i","t","y">> >>

\* fallbackScoring's local highValueKeywords
highValueKeywords ==
    << <<"s","c","a","l","e">>,
       <<"g","r","o","w","t","h">>,
       <<"a","u","t","o","m","a","t","i","o","n">>,
       <<"A","I">>,
       <<"e","f","f","i","c","i","e","n","c","y">>,
       <<"p","r","o","d","u","c","t","i","v","i","t","y">> >>

(***************************************************************************)
(* Text literals of the source.                                            *)
(***************************************************************************)
\* the value of OPENAI_API_KEY that counts as not configured
ApiKeyPlaceholder ==
    <<"y","o","u","r","_","o","p","e","n","a","i","_","a","p","i","_","k","e","y","_","h","e","r","e">>
\* scoreLeads' catch: reasoning of the placeholder record
ErrorReasoning ==
    <<"E","r","r","o","r"," ","d","u","r","i","n","g"," ","s","c","o","r","i","n","g"," ","p","r","o","c","e","s","s">>
\* scoreWithAI's catch: reasoning of the degraded default
UnableReasoning ==
    <<"U","n","a","b","l","e"," ","t","o"," ","d","e","t","e","r","m","i","n","e"," ","i","n","t","e","n","t"," ","v","i","a"," ","A","I"," ","a","n","a","l","y","s","i","s">>
\* parseAIResponse: initial reasoning
CompletedReasoning ==
    <<"A","I"," ","a","n","a","l","y","s","i","s"," ","c","o","m","p","l","e","t","e","d">>
\* parseAIResponse: the intent marker
IntentMarker ==
    <<"I","N","T","E","N","T",":">>
\* parseAIResponse: the reasoning marker
ReasoningMarker ==
    <<"R","E","A","S","O","N","I","N","G",":">>
HighText ==
    <<"H","i","g","h">>
LowText ==
    <<"L","o","w">>
\* fallbackScoring: the ICP marker
SaasText ==
    <<"s","a","a","s">>
\* fallbackScoring: the technology marker
TechText ==
    <<"t","e","c","h">>
\* fallbackScoring: the reasoning template
TemplateHead ==
    <<"B","a","s","e","d"," ","o","n"," ","p","r","o","f","i","l","e"," ","a","n","a","l","y","s","i","s",":"," ">>
TemplateIn ==
    <<" ","i","n"," ">>
TemplateTail ==
    <<" ","i","n","d","u","s","t","r","y",".">>
\* String(undefined), as a template literal renders it
UndefinedText ==
    <<"u","n","d","e","f","i","n","e","d">>

(***************************************************************************)
(* JavaScript values and string methods.                                   *)
(***************************************************************************)
Str(s) == [t |-> "string", v |-> s]
Undefined == [t |-> "undefined", v |-> <<>>]
\* a non-zero number, the sample of a truthy value that is not a string
NumberValue == [t |-> "number", v |-> <<"7">>]

\* ToBoolean: undefined and "" are falsy, a non-zero number is truthy
Truthy(x) ==
    CASE x.t = "string"    -> Len(x.v) > 0
      [] x.t = "undefined" -> FALSE
      [] OTHER             -> TRUE

\* a call of a String method on x raises TypeError unless x is a string
IsString(x) == x.t = "string"

\* `${x}` in a template literal
ToText(x) == IF x.t = "undefined" THEN UndefinedText ELSE x.v

UpperChars ==
    <<"A","B","C","D","E","F","G","H","I","J","K","L","M",
      "N","O","P","Q","R","S","T","U","V","W","X","Y","Z">>
LowerChars ==
    <<"a","b","c","d","e","f","g","h","i","j","k","l","m",
      "n","o","p","q","r","s","t","u","v","w","x","y","z">>
WhiteSpace == {" ", "\t", "\n", "\r"}

toLowerCaseChar(c) ==
    IF \E i \in 1..Len(UpperChars) : UpperChars[i] = c
    THEN LowerChars[CHOOSE i \in 1..Len(UpperChars) : UpperChars[i] = c]
    ELSE c
toUpperCaseChar(c) ==
    IF \E i \in 1..Len(LowerChars) : LowerChars[i] = c
    THEN UpperChars[CHOOSE i \in 1..Len(LowerChars) : LowerChars[i] = c]
    ELSE c
toLowerCase(s) == [i \in 1..Len(s) |-> toLowerCaseChar(s[i])]
toUpperCase(s) == [i \in 1..Len(s) |-> toUpperCaseChar(s[i])]

\* String.prototype.includes
includes(s, sub) ==
    \E i \in 0..(Len(s) - Len(sub)) : SubSeq(s, i + 1, i + Len(sub)) = sub
\* String.prototype.startsWith
startsWith(s, prefix) ==
    Len(s) >= Len(prefix) /\ SubSeq(s, 1, Len(prefix)) = prefix
\* String.prototype.trim
trim(s) ==
    LET keep == {i \in 1..Len(s) : s[i] \notin WhiteSpace}
    IN  IF keep = {} THEN <<>>
        ELSE LET lo == CHOOSE i \in keep : \A j \in keep : i <= j
                 hi == CHOOSE i \in keep : \A j \in keep : i >= j
             IN  SubSeq(s, lo, hi)
\* String.prototype.replace with a string pattern: the first occurrence only
replace(s, pattern, by) ==
    IF ~includes(s, pattern) THEN s
    ELSE LET at == CHOOSE i \in 0..(Len(s) - Len(pattern)) :
                      /\ SubSeq(s, i + 1, i + Len(pattern)) = pattern
                      /\ \A j \in 0..(i - 1) : SubSeq(s, j + 1, j + Len(pattern)) # pattern
         IN  SubSeq(s, 1, at) \o by \o SubSeq(s, at + Len(pattern) + 1, Len(s))
\* String.prototype.split('\n')
RECURSIVE split(_)
split(s) ==
    IF \A i \in 1..Len(s) : s[i] # "\n" THEN <<s>>
    ELSE LET at == CHOOSE i \in 1..Len(s) :
                      s[i] = "\n" /\ \A j \in 1..(i - 1) : s[j] # "\n"
         IN  <<SubSeq(s, 1, at - 1)>> \o split(SubSeq(s, at + 1, Len(s)))
\* Array.prototype.some(keyword => s.includes(f(keyword)))
someIncluded(s, keywords, upper) ==
    \E k \in 1..Len(keywords) :
        includes(s, IF upper THEN toUpperCase(keywords[k]) ELSE toLowerCase(keywords[k]))

(***************************************************************************)
(* A call that raises instead of returning: threw is TRUE and value unused. *)
(***************************************************************************)
Ok(x) == [threw |-> FALSE, value |-> x]
Throw == [threw |-> TRUE, value |-> 0]

(***************************************************************************)
(* RuleScoringService                                                      *)
(***************************************************************************)
\* scoreRole testing the influencer keywords before the decision-maker keywords
scoreRoleInfluencerFirst(role) ==
    IF ~Truthy(role) THEN Ok(SCORING_WEIGHTS.ROLE.OTHERS)
    ELSE IF ~IsString(role) THEN Throw
    ELSE LET roleUpper == toUpperCase(role.v)
         IN  IF someIncluded(roleUpper, INFLUENCER_ROLES, TRUE)
             THEN Ok(SCORING_WEIGHTS.ROLE.INFLUENCER)
             ELSE IF someIncluded(roleUpper, DECISION_MAKER_ROLES, TRUE)
             THEN Ok(SCORING_WEIGHTS.ROLE.DECISION_MAKER)
             ELSE Ok(SCORING_WEIGHTS.ROLE.OTHERS)

scoreRole(role) ==
    IF ~Truthy(role) THEN Ok(SCORING_WEIGHTS.ROLE.OTHERS)
    ELSE IF ~IsString(role) THEN Throw          \* role.toUpperCase is not a function
    ELSE LET roleUpper == toUpperCase(role.v)
         IN  IF someIncluded(roleUpper, DECISION_MAKER_ROLES, TRUE)
             THEN Ok(SCORING_WEIGHTS.ROLE.DECISION_MAKER)
             ELSE IF someIncluded(roleUpper, INFLUENCER_ROLES, TRUE)
             THEN Ok(SCORING_WEIGHTS.ROLE.INFLUENCER)
             ELSE Ok(SCORING_WEIGHTS.ROLE.OTHERS)

\* scoreIndustry testing the adjacent keywords before the exact ones
scoreIndustryAdjacentFirst(industry) ==
    IF ~Truthy(industry) THEN Ok(SCORING_WEIGHTS.INDUSTRY.OTHERS)
    ELSE IF ~IsString(industry) THEN Throw
    ELSE LET industryUpper == toUpperCase(industry.v)
         IN  IF someIncluded(industryUpper, ICP_INDUSTRIES.ADJACENT, TRUE)
             THEN Ok(SCORING_WEIGHTS.INDUSTRY.ADJACENT)
             ELSE IF someIncluded(industryUpper, ICP_INDUSTRIES.EXACT, TRUE)
             THEN Ok(SCORING_WEIGHTS.INDUSTRY.EXACT_MATCH)
             ELSE Ok(SCORING_WEIGHTS.INDUSTRY.OTHERS)

scoreIndustry(industry) ==
    IF ~Truthy(industry) THEN Ok(SCORING_WEIGHTS.INDUSTRY.OTHERS)
    ELSE IF ~IsString(industry) THEN Throw      \* industry.toUpperCase is not a function
    ELSE LET industryUpper == toUpperCase(industry.v)
         IN  IF someIncluded(industryUpper, ICP_INDUSTRIES.EXACT, TRUE)
             THEN Ok(SCORING_WEIGHTS.INDUSTRY.EXACT_MATCH)
             ELSE IF someIncluded(industryUpper, ICP_INDUSTRIES.ADJACENT, TRUE)
             THEN Ok(SCORING_WEIGHTS.INDUSTRY.ADJACENT)
             ELSE Ok(SCORING_WEIGHTS.INDUSTRY.OTHERS)

\* every(field => field && field.length > 0): the test without trim
RECURSIVE everyFieldPresentUntrimmed(_, _)
everyFieldPresentUntrimmed(fields, i) ==
    IF i > Len(fields) THEN Ok(TRUE)
    ELSE IF ~Truthy(fields[i]) THEN Ok(FALSE)
    ELSE IF ~IsString(fields[i]) THEN Throw
    ELSE IF Len(fields[i].v) > 0 THEN everyFieldPresentUntrimmed(fields, i + 1)
    ELSE Ok(FALSE)

\* fields.every(field => field && field.trim().length > 0), from field i on:
\* every stops at the first field the callback rejects
RECURSIVE everyFieldPresent(_, _)
everyFieldPresent(fields, i) ==
    IF i > Len(fields) THEN Ok(TRUE)
    ELSE IF ~Truthy(fields[i]) THEN Ok(FALSE)
    ELSE IF ~IsString(fields[i]) THEN Throw     \* field.trim is not a function
    ELSE IF Len(trim(fields[i].v)) > 0 THEN everyFieldPresent(fields, i + 1)
    ELSE Ok(FALSE)

scoreCompleteness(lead) ==
    LET fields == <<lead.name, lead.role, lead.company,
                    lead.industry, lead.location, lead.linkedin_bio>>
        allFieldsPresent == everyFieldPresent(fields, 1)
    IN  IF allFieldsPresent.threw THEN Throw
        ELSE Ok(IF allFieldsPresent.value
                THEN SCORING_WEIGHTS.COMPLETENESS.ALL_FIELDS ELSE 0)

\* calculateRuleScore leaving completeness_score out of the total
calculateRuleScoreTwoParts(lead) ==
    LET role         == scoreRole(lead.role)
        industry     == scoreIndustry(lead.industry)
        completeness == scoreCompleteness(lead)
    IN  IF role.threw \/ industry.threw \/ completeness.threw THEN Throw
        ELSE LET total == role.value + industry.value
             IN  Ok([ score     |-> total,
                      breakdown |-> [ role_score         |-> role.value,
                                      industry_score     |-> industry.value,
                                      completeness_score |-> completeness.value,
                                      total_rule_score   |-> total ] ])

calculateRuleScore(lead) ==
    LET role         == scoreRole(lead.role)
        industry     == scoreIndustry(lead.industry)
        completeness == scoreCompleteness(lead)
    IN  IF role.threw \/ industry.threw \/ completeness.threw THEN Throw
        ELSE LET total == role.value + industry.value + completeness.value
             IN  Ok([ score     |-> total,
                      breakdown |-> [ role_score         |-> role.value,
                                      industry_score     |-> industry.value,
                                      completeness_score |-> completeness.value,
                                      total_rule_score   |-> total ] ])

(***************************************************************************)
(* AIScoringService                                                        *)
(***************************************************************************)
\* keyConfigured without the comparison with the placeholder value
keyConfiguredAnyText(key) == Truthy(key)

\* the negation of scoreWithAI's test
\*   !process.env.OPENAI_API_KEY || process.env.OPENAI_API_KEY === 'your_openai_api_key_here'
keyConfigured(key) == Truthy(key) /\ key # Str(ApiKeyPlaceholder)

\* Array.prototype.join(', ')
RECURSIVE join(_)
join(items) ==
    IF Len(items) = 0 THEN <<>>
    ELSE IF Len(items) = 1 THEN items[1]
    ELSE items[1] \o <<",", " ">> \o join(Tail(items))

\* the texts buildPrompt interpolates into its template, in the template's order
buildPrompt(lead, off) ==
    IF off.value_props.t # "array" \/ off.ideal_use_cases.t # "array"
    THEN Throw                                  \* offer.value_props.join is not a function
    ELSE Ok(<< ToText(off.name), join(off.value_props.v), join(off.ideal_use_cases.v),
               ToText(lead.name), ToText(lead.role), ToText(lead.company),
               ToText(lead.industry), ToText(lead.location), ToText(lead.linkedin_bio) >>)

\* scoreMap with the weights of High and Low exchanged
scoreMapExchanged(intent) ==
    CASE intent = "High"   -> SCORING_WEIGHTS.AI.LOW
      [] intent = "Medium" -> SCORING_WEIGHTS.AI.MEDIUM
      [] intent = "Low"    -> SCORING_WEIGHTS.AI.HIGH

scoreMap(intent) ==
    CASE intent = "High"   -> SCORING_WEIGHTS.AI.HIGH
      [] intent = "Medium" -> SCORING_WEIGHTS.AI.MEDIUM
      [] intent = "Low"    -> SCORING_WEIGHTS.AI.LOW

\* parseAIResponse's loop testing "Low" before "High"
RECURSIVE parseLinesLowFirst(_, _, _, _)
parseLinesLowFirst(lines, i, intent, reasoning) ==
    IF i > Len(lines) THEN [intent |-> intent, reasoning |-> reasoning]
    ELSE LET line == lines[i]
         IN  IF startsWith(line, IntentMarker)
             THEN LET intentStr == trim(replace(line, IntentMarker, <<>>))
                  IN  parseLinesLowFirst(lines, i + 1,
                                         IF includes(intentStr, LowText) THEN "Low"
                                         ELSE IF includes(intentStr, HighText) THEN "High"
                                         ELSE "Medium",
                                         reasoning)
             ELSE IF startsWith(line, ReasoningMarker)
             THEN parseLinesLowFirst(lines, i + 1, intent,
                                     trim(replace(line, ReasoningMarker, <<>>)))
             ELSE parseLinesLowFirst(lines, i + 1, intent, reasoning)

\* parseAIResponse's loop over lines, from line i on
RECURSIVE parseLines(_, _, _, _)
parseLines(lines, i, intent, reasoning) ==
    IF i > Len(lines) THEN [intent |-> intent, reasoning |-> reasoning]
    ELSE LET line == lines[i]
         IN  IF startsWith(line, IntentMarker)
             THEN LET intentStr == trim(replace(line, IntentMarker, <<>>))
                  IN  parseLines(lines, i + 1,
                                 IF includes(intentStr, HighText) THEN "High"
                                 ELSE IF includes(intentStr, LowText) THEN "Low"
                                 ELSE "Medium",
                                 reasoning)
             ELSE IF startsWith(line, ReasoningMarker)
             THEN parseLines(lines, i + 1, intent,
                             trim(replace(line, ReasoningMarker, <<>>)))
             ELSE parseLines(lines, i + 1, intent, reasoning)

\* parseAIResponse starting from the label Low instead of Medium
parseAIResponseFromLow(response) ==
    LET parsed == parseLines(split(response), 1, "Low", CompletedReasoning)
    IN  [ score     |-> scoreMap(parsed.intent),
          intent    |-> parsed.intent,
          reasoning |-> parsed.reasoning ]

parseAIResponse(response) ==
    LET parsed == parseLines(split(response), 1, "Medium", CompletedReasoning)
    IN  [ score     |-> scoreMap(parsed.intent),
          intent    |-> parsed.intent,
          reasoning |-> parsed.reasoning ]

\* fallbackScoring comparing the industry as written, without toLowerCase
fallbackScoringCaseSensitive(lead, off) ==
    IF ~IsString(lead.linkedin_bio) THEN Throw
    ELSE LET bioLower == toLowerCase(lead.linkedin_bio.v)
             hasHighValueKeywords == someIncluded(bioLower, highValueKeywords, FALSE)
             reasoning == TemplateHead \o ToText(lead.role) \o TemplateIn
                            \o ToText(lead.industry) \o TemplateTail
         IN  IF ~IsString(lead.industry) THEN Throw
             ELSE IF hasHighValueKeywords /\ includes(lead.industry.v, SaasText)
             THEN Ok([ score |-> SCORING_WEIGHTS.AI.HIGH, intent |-> "High",
                       reasoning |-> reasoning ])
             ELSE IF ~hasHighValueKeywords /\ ~includes(lead.industry.v, TechText)
             THEN Ok([ score |-> SCORING_WEIGHTS.AI.LOW, intent |-> "Low",
                       reasoning |-> reasoning ])
             ELSE Ok([ score |-> SCORING_WEIGHTS.AI.MEDIUM, intent |-> "Medium",
                       reasoning |-> reasoning ])

\* fallbackScoring reading the offer: it raises when value_props is no array
fallbackScoringReadsOffer(lead, off) ==
    IF off.value_props.t # "array" THEN Throw
    ELSE IF ~IsString(lead.linkedin_bio) THEN Throw
    ELSE LET bioLower == toLowerCase(lead.linkedin_bio.v)
             hasHighValueKeywords == someIncluded(bioLower, highValueKeywords, FALSE)
             reasoning == TemplateHead \o ToText(lead.role) \o TemplateIn
                            \o ToText(lead.industry) \o TemplateTail
         IN  IF ~IsString(lead.industry) THEN Throw
             ELSE IF hasHighValueKeywords /\ includes(toLowerCase(lead.industry.v), SaasText)
             THEN Ok([ score |-> SCORING_WEIGHTS.AI.HIGH, intent |-> "High",
                       reasoning |-> reasoning ])
             ELSE IF ~hasHighValueKeywords /\ ~includes(toLowerCase(lead.industry.v), TechText)
             THEN Ok([ score |-> SCORING_WEIGHTS.AI.LOW, intent |-> "Low",
                       reasoning |-> reasoning ])
             ELSE Ok([ score |-> SCORING_WEIGHTS.AI.MEDIUM, intent |-> "Medium",
                       reasoning |-> reasoning ])

fallbackScoring(lead, off) ==
    IF ~IsString(lead.linkedin_bio) THEN Throw  \* lead.linkedin_bio.toLowerCase
    ELSE LET bioLower == toLowerCase(lead.linkedin_bio.v)
             hasHighValueKeywords == someIncluded(bioLower, highValueKeywords, FALSE)
             reasoning == TemplateHead \o ToText(lead.role) \o TemplateIn
                            \o ToText(lead.industry) \o TemplateTail
         IN  IF ~IsString(lead.industry) THEN Throw   \* lead.industry.toLowerCase, on either branch
             ELSE IF hasHighValueKeywords /\ includes(toLowerCase(lead.industry.v), SaasText)
             THEN Ok([ score |-> SCORING_WEIGHTS.AI.HIGH, intent |-> "High",
                       reasoning |-> reasoning ])
             ELSE IF ~hasHighValueKeywords /\ ~includes(toLowerCase(lead.industry.v), TechText)
             THEN Ok([ score |-> SCORING_WEIGHTS.AI.LOW, intent |-> "Low",
                       reasoning |-> reasoning ])
             ELSE Ok([ score |-> SCORING_WEIGHTS.AI.MEDIUM, intent |-> "Medium",
                       reasoning |-> reasoning ])

\* the catch block returning the weight of Low under the label Medium
scoreWithAICatchLow ==
    [ score     |-> SCORING_WEIGHTS.AI.LOW,
      intent    |-> "Medium",
      reasoning |-> UnableReasoning ]

\* the value scoreWithAI's catch block returns
scoreWithAICatch ==
    [ score     |-> SCORING_WEIGHTS.AI.MEDIUM,
      intent    |-> "Medium",
      reasoning |-> UnableReasoning ]

\* scoreWithAI with the key test and fallbackScoring outside the try block: a fault
\* of the heuristic rejects scoreWithAI's promise
scoreWithAIStartUncaught(lead, off, key) ==
    IF ~keyConfigured(key)
    THEN LET fb == fallbackScoring(lead, off)
         IN  IF fb.threw
             THEN [ threw |-> TRUE, dispatch |-> FALSE, path |-> "failure",
                    fault |-> "heuristic", ret |-> scoreWithAICatch, prompt |-> <<>>,
                    response |-> <<>> ]
             ELSE [ threw |-> FALSE, dispatch |-> FALSE, path |-> "fallback",
                    fault |-> "none", ret |-> fb.value, prompt |-> <<>>,
                    response |-> <<>> ]
    ELSE LET prompt == buildPrompt(lead, off)
         IN  IF prompt.threw
             THEN [ threw |-> FALSE, dispatch |-> FALSE, path |-> "failure",
                    fault |-> "prompt", ret |-> scoreWithAICatch, prompt |-> <<>>,
                    response |-> <<>> ]
             ELSE [ threw |-> FALSE, dispatch |-> TRUE, path |-> "primary",
                    fault |-> "none", ret |-> scoreWithAICatch, prompt |-> prompt.value,
                    response |-> <<>> ]

\* scoreWithAI up to its await.  Its body is one try block: whatever fallbackScoring or
\* buildPrompt raises is caught, and the catch block's value returned.  Either it
\* returns (dispatch FALSE; the value in ret, the path taken in path, what the catch
\* block caught in fault) or it dispatches the external call and suspends.
\* threw says that scoreWithAI's promise rejected.
scoreWithAIStart(lead, off, key) ==
    IF ~keyConfigured(key)
    THEN LET fb == fallbackScoring(lead, off)
         IN  IF fb.threw
             THEN [ threw |-> FALSE, dispatch |-> FALSE, path |-> "failure",
                    fault |-> "heuristic", ret |-> scoreWithAICatch, prompt |-> <<>>,
                    response |-> <<>> ]
             ELSE [ threw |-> FALSE, dispatch |-> FALSE, path |-> "fallback",
                    fault |-> "none", ret |-> fb.value, prompt |-> <<>>,
                    response |-> <<>> ]
    ELSE LET prompt == buildPrompt(lead, off)
         IN  IF prompt.threw
             THEN [ threw |-> FALSE, dispatch |-> FALSE, path |-> "failure",
                    fault |-> "prompt", ret |-> scoreWithAICatch, prompt |-> <<>>,
                    response |-> <<>> ]
             ELSE [ threw |-> FALSE, dispatch |-> TRUE, path |-> "primary",
                    fault |-> "none", ret |-> scoreWithAICatch, prompt |-> prompt.value,
                    response |-> <<>> ]

\* scoreWithAI treating a rejected call as an empty response
scoreWithAIResumeAsEmpty(outcome) ==
    IF outcome.kind # "content" \/ ~Truthy(outcome.content)
    THEN [ threw |-> FALSE, path |-> "failure", fault |-> outcome.kind,
           ret |-> parseAIResponse(<<>>), response |-> <<>> ]
    ELSE IF ~IsString(outcome.content)
    THEN [ threw |-> FALSE, path |-> "failure", fault |-> "content",
           ret |-> scoreWithAICatch, response |-> <<>> ]
    ELSE [ threw |-> FALSE, path |-> "primary", fault |-> "none",
           ret |-> parseAIResponse(outcome.content.v), response |-> outcome.content.v ]

\* scoreWithAI after its await.  outcome.kind is "raise" (the awaited call rejected),
\* "noChoices" (the completion has no choices array: choices[0] raises TypeError) or
\* "content" (outcome.content is completion.choices[0]?.message?.content)
scoreWithAIResume(outcome) ==
    IF outcome.kind # "content"
    THEN [ threw |-> FALSE, path |-> "failure", fault |-> outcome.kind,
           ret |-> scoreWithAICatch, response |-> <<>> ]
    ELSE IF ~Truthy(outcome.content)            \* content || ''
    THEN [ threw |-> FALSE, path |-> "primary", fault |-> "none",
           ret |-> parseAIResponse(<<>>), response |-> <<>> ]
    ELSE IF ~IsString(outcome.content)          \* response.split is not a function
    THEN [ threw |-> FALSE, path |-> "failure", fault |-> "content",
           ret |-> scoreWithAICatch, response |-> <<>> ]
    ELSE [ threw |-> FALSE, path |-> "primary", fault |-> "none",
           ret |-> parseAIResponse(outcome.content.v), response |-> outcome.content.v ]

(***************************************************************************)
(* LeadScoringService                                                      *)
(***************************************************************************)
determineIntent(score) ==
    IF score >= INTENT_THRESHOLDS.HIGH THEN "High"
    ELSE IF score >= INTENT_THRESHOLDS.MEDIUM THEN "Medium"
    ELSE "Low"

\* scoredLeadOf with the total taken from the AI score alone
scoredLeadOfAiOnly(lead, pos, rule, ai) ==
    [ name |-> lead.name, role |-> lead.role, company |-> lead.company,
      industry |-> lead.industry, location |-> lead.location,
      linkedin_bio |-> lead.linkedin_bio,
      score      |-> ai.score,
      intent     |-> determineIntent(ai.score),
      reasoning  |-> ai.reasoning,
      rule_score |-> rule,
      ai_score   |-> ai.score,
      pos        |-> pos ]

\* scoredLeadOf keeping the classifier's own label as the record's intent
scoredLeadOfAiIntent(lead, pos, rule, ai) ==
    [ name |-> lead.name, role |-> lead.role, company |-> lead.company,
      industry |-> lead.industry, location |-> lead.location,
      linkedin_bio |-> lead.linkedin_bio,
      score      |-> rule + ai.score,
      intent     |-> ai.intent,
      reasoning  |-> ai.reasoning,
      rule_score |-> rule,
      ai_score   |-> ai.score,
      pos        |-> pos ]

\* scoreLead after scoreWithAI has returned ai: the ScoredLead it builds.
\* pos is history, not a property of the object: the position of the lead in the input.
scoredLeadOf(lead, pos, rule, ai) ==
    LET totalScore == rule + ai.score
    IN  [ name |-> lead.name, role |-> lead.role, company |-> lead.company,
          industry |-> lead.industry, location |-> lead.location,
          linkedin_bio |-> lead.linkedin_bio,
          score      |-> totalScore,
          intent     |-> determineIntent(totalScore),
          reasoning  |-> ai.reasoning,
          rule_score |-> rule,
          ai_score   |-> ai.score,
          pos        |-> pos ]

\* an entry of aiLog: what scoreWithAI returned for the lead at pos, and the response
\* text it parsed on the primary path
logEntry(pos, ai) ==
    [ pos |-> pos, path |-> ai.path, fault |-> ai.fault, ret |-> ai.ret,
      response |-> ai.response ]

\* scoreLead up to its await: status is "threw" (the promise rejects), "awaiting"
\* (suspended on the external call, ruleScore kept) or "done" (record returned)
scoreLeadStart(lead, pos, off, key) ==
    LET rule == calculateRuleScore(lead)
    IN  IF rule.threw
        THEN [status |-> "threw", rule |-> 0, record |-> <<>>, log |-> <<>>, prompt |-> <<>>]
        ELSE LET ai == scoreWithAIStart(lead, off, key)
             IN  IF ai.threw
                 THEN [ status |-> "threw", rule |-> 0, record |-> <<>>, log |-> <<>>,
                        prompt |-> <<>>,
                    response |-> <<>> ]
                 ELSE IF ai.dispatch
                 THEN [ status |-> "awaiting", rule |-> rule.value.score, record |-> <<>>,
                        log |-> <<>>, prompt |-> ai.prompt ]
                 ELSE [ status |-> "done", rule |-> rule.value.score,
                        record |-> scoredLeadOf(lead, pos, rule.value.score, ai.ret),
                        log |-> logEntry(pos, ai), prompt |-> <<>>,
                    response |-> <<>> ]

\* scoreLead after its await, with the external call's outcome
scoreLeadResume(lead, pos, rule, outcome) ==
    LET ai == scoreWithAIResume(outcome)
    IN  IF ai.threw
        THEN [status |-> "threw", record |-> <<>>, log |-> <<>>]
        ELSE [ status |-> "done", record |-> scoredLeadOf(lead, pos, rule, ai.ret),
               log |-> logEntry(pos, ai) ]

\* the catch block's record built without the spread of the lead: only the name kept
errorPlaceholderNameOnly(lead, pos) ==
    [ name |-> lead.name, role |-> Undefined, company |-> Undefined,
      industry |-> Undefined, location |-> Undefined,
      linkedin_bio |-> Undefined,
      score      |-> 40,
      intent     |-> "Medium",
      reasoning  |-> ErrorReasoning,
      rule_score |-> 20,
      ai_score   |-> 20,
      pos        |-> pos ]

\* the record scoreLeads' catch block pushes
errorPlaceholder(lead, pos) ==
    [ name |-> lead.name, role |-> lead.role, company |-> lead.company,
      industry |-> lead.industry, location |-> lead.location,
      linkedin_bio |-> lead.linkedin_bio,
      score      |-> 40,
      intent     |-> "Medium",
      reasoning  |-> ErrorReasoning,
      rule_score |-> 20,
      ai_score   |-> 20,
      pos        |-> pos ]

\* an insertion that puts x ahead of the records of equal score: an unstable sort
sortInsertAhead(sorted, x) ==
    LET ahead == Cardinality({j \in 1..Len(sorted) : sorted[j].score > x.score})
    IN  SubSeq(sorted, 1, ahead) \o <<x>> \o SubSeq(sorted, ahead + 1, Len(sorted))

\* scoredLeads.sort((a, b) => b.score - a.score).  Array.prototype.sort is stable
\* (ECMAScript 2019; the image is node:18): x goes behind every record it does not
\* precede under the comparator.
sortInsert(sorted, x) ==
    LET ahead == Cardinality({j \in 1..Len(sorted) : sorted[j].score >= x.score})
    IN  SubSeq(sorted, 1, ahead) \o <<x>> \o SubSeq(sorted, ahead + 1, Len(sorted))
RECURSIVE sortByScore(_)
sortByScore(records) ==
    IF Len(records) = 0 THEN <<>>
    ELSE sortInsert(sortByScore(SubSeq(records, 1, Len(records) - 1)), records[Len(records)])

\* scoreLeads with a catch block that logs the error and pushes nothing
RECURSIVE scoreLeadsFromNoPush(_, _, _, _, _, _, _)
scoreLeadsFromNoPush(ls, off, key, i, acc, alog, clog) ==
    IF i > Len(ls)
    THEN [ pc |-> "returned", idx |-> 0, ruleScore |-> 0,
           scoredLeads |-> sortByScore(acc), aiLog |-> alog, callLog |-> clog ]
    ELSE LET one == scoreLeadStart(ls[i], i, off, key)
         IN  CASE one.status = "threw" ->
                    scoreLeadsFromNoPush(ls, off, key, i + 1, acc, alog, clog)
               [] one.status = "awaiting" ->
                    [ pc |-> "awaiting", idx |-> i, ruleScore |-> one.rule,
                      scoredLeads |-> acc, aiLog |-> alog,
                      callLog |-> Append(clog, [pos |-> i, prompt |-> one.prompt]) ]
               [] one.status = "done" ->
                    scoreLeadsFromNoPush(ls, off, key, i + 1,
                                         Append(acc, one.record), Append(alog, one.log), clog)

\* scoreLeads' loop from lead i on, with acc the records pushed so far: it runs
\* without yielding to the caller until scoreWithAI dispatches the external call
\* (pc "awaiting") or the loop ends and the sorted array is returned.
RECURSIVE scoreLeadsFrom(_, _, _, _, _, _, _)
scoreLeadsFrom(ls, off, key, i, acc, alog, clog) ==
    IF i > Len(ls)
    THEN [ pc |-> "returned", idx |-> 0, ruleScore |-> 0,
           scoredLeads |-> sortByScore(acc), aiLog |-> alog, callLog |-> clog ]
    ELSE LET one == scoreLeadStart(ls[i], i, off, key)
         IN  CASE one.status = "threw" ->
                    scoreLeadsFrom(ls, off, key, i + 1,
                                   Append(acc, errorPlaceholder(ls[i], i)), alog, clog)
               [] one.status = "awaiting" ->
                    [ pc |-> "awaiting", idx |-> i, ruleScore |-> one.rule,
                      scoredLeads |-> acc, aiLog |-> alog,
                      callLog |-> Append(clog, [pos |-> i, prompt |-> one.prompt]) ]
               [] one.status = "done" ->
                    scoreLeadsFrom(ls, off, key, i + 1,
                                   Append(acc, one.record), Append(alog, one.log), clog)

\* scoreLeads resumed, with scoreWithAI dispatching the call again after it raised
scoreLeadsResumeRetrying(ls, off, key, i, rule, outcome, acc, alog, clog) ==
    IF outcome.kind = "raise"
    THEN [ pc |-> "awaiting", idx |-> i, ruleScore |-> rule,
           scoredLeads |-> acc, aiLog |-> alog,
           callLog |-> Append(clog, [pos |-> i, prompt |-> clog[Len(clog)].prompt]) ]
    ELSE LET one == scoreLeadResume(ls[i], i, rule, outcome)
         IN  scoreLeadsFrom(ls, off, key, i + 1,
                            Append(acc, one.record), Append(alog, one.log), clog)

\* scoreLeads whose loop is never resumed once a call has raised
scoreLeadsResumeStalling(ls, off, key, i, rule, outcome, acc, alog, clog) ==
    IF outcome.kind = "raise"
    THEN [ pc |-> "stalled", idx |-> i, ruleScore |-> rule,
           scoredLeads |-> acc, aiLog |-> alog, callLog |-> clog ]
    ELSE LET one == scoreLeadResume(ls[i], i, rule, outcome)
         IN  scoreLeadsFrom(ls, off, key, i + 1,
                            Append(acc, one.record), Append(alog, one.log), clog)

\* scoreLeads resumed by the outcome of the external call for lead i
scoreLeadsResume(ls, off, key, i, rule, outcome, acc, alog, clog) ==
    LET one == scoreLeadResume(ls[i], i, rule, outcome)
    IN  IF one.status = "threw"
        THEN scoreLeadsFrom(ls, off, key, i + 1,
                            Append(acc, errorPlaceholder(ls[i], i)), alog, clog)
        ELSE scoreLeadsFrom(ls, off, key, i + 1,
                            Append(acc, one.record), Append(alog, one.log), clog)

\* scoreLead called on its own: no catch block surrounds it, so a fault rejects
\* the promise it returned
scoreLeadAlone(one, clog) ==
    CASE one.status = "threw" ->
           [ pc |-> "rejected", idx |-> 0, ruleScore |-> 0,
             scoredLeads |-> <<>>, aiLog |-> <<>>, callLog |-> clog ]
      [] one.status = "awaiting" ->
           [ pc |-> "awaiting", idx |-> 1, ruleScore |-> one.rule,
             scoredLeads |-> <<>>, aiLog |-> <<>>,
             callLog |-> <<[pos |-> 1, prompt |-> one.prompt]>> ]
      [] one.status = "done" ->
           [ pc |-> "returned", idx |-> 0, ruleScore |-> 0,
             scoredLeads |-> <<one.record>>, aiLog |-> <<one.log>>, callLog |-> clog ]

(***************************************************************************)
(* Inputs.                                                                 *)
(***************************************************************************)
Lead(name, role, company, industry, location, bio) ==
    [ name |-> name, role |-> role, company |-> company,
      industry |-> industry, location |-> location, linkedin_bio |-> bio ]

\* the lead of the spec's scenario: VP of Sales, B2B SaaS, a bio with "automation"
AmyChen ==
    Lead(Str(<<"A","m","y"," ","C","h","e","n">>),
         Str(<<"V","P"," ","o","f"," ","S","a","l","e","s">>),
         Str(<<"A","c","m","e">>),
         Str(<<"B","2","B"," ","S","a","a","S">>),
         Str(<<"N","Y","C">>),
         Str(<<"S","c","a","l","i","n","g"," ","o","u","t","b","o","u","n","d"," ","w","i","t","h"," ","a","u","t","o","m","a","t","i","o","n">>))
\* an influencer in an adjacent industry whose bio has no keyword
BobRay ==
    Lead(Str(<<"B","o","b"," ","R","a","y">>),
         Str(<<"S","e","n","i","o","r"," ","E","n","g","i","n","e","e","r">>),
         Str(<<"I","n","i","t","e","c","h">>),
         Str(<<"F","i","n","t","e","c","h">>),
         Str(<<"A","u","s","t","i","n">>),
         Str(<<"L","o","v","e","s"," ","g","o","l","f">>))
\* a lead whose role is not a string: the rule engine raises TypeError
BadRole ==
    Lead(Str(<<"C","y"," ","D","e","e">>),
         NumberValue,
         Str(<<"G","l","o","b","e","x">>),
         Str(<<"R","e","t","a","i","l">>),
         Str(<<"O","s","l","o">>),
         Str(<<"L","o","v","e","s"," ","g","o","l","f">>))
\* a lead with no linkedin_bio property: the local heuristic raises TypeError
NoBio ==
    Lead(Str(<<"D","i"," ","F","o","x">>),
         Str(<<"M","a","n","a","g","e","r">>),
         Str(<<"H","o","o","l","i">>),
         Str(<<"R","e","t","a","i","l">>),
         Str(<<"R","o","m","e">>),
         Undefined)

\* the leads batches are made of
LeadPool == {AmyChen, BobRay, BadRole, NoBio}
Batches == UNION {[1..n -> LeadPool] : n \in 0..MaxBatch}

\* the field values scoreLead's single leads are made of
RoleValues ==
    { Str(<<"V","P"," ","o","f"," ","S","a","l","e","s">>),
      Str(<<"S","e","n","i","o","r"," ","E","n","g","i","n","e","e","r">>),
      Str(<<"I","n","t","e","r","n">>),
      Str(<<>>),
      Undefined,
      NumberValue }
IndustryValues ==
    { Str(<<"B","2","B"," ","S","a","a","S">>),
      Str(<<"F","i","n","t","e","c","h">>),
      Str(<<"B","i","o","t","e","c","h">>),
      Str(<<"R","e","t","a","i","l">>),
      Str(<<>>),
      Undefined }
BioValues ==
    { Str(<<"S","c","a","l","i","n","g"," ","o","u","t","b","o","u","n","d"," ","w","i","t","h"," ","a","u","t","o","m","a","t","i","o","n">>),
      Str(<<"D","R","I","V","I","N","G"," ","G","R","O","W","T","H">>),
      Str(<<"M","a","i","n","t","a","i","n","s"," ","l","e","d","g","e","r","s">>),
      Str(<<"L","o","v","e","s"," ","g","o","l","f">>),
      Str(<<>>),
      Undefined }
CompanyValues ==
    { Str(<<"A","c","m","e">>),
      Str(<<" "," ">>) }
LeadSpace ==
    { Lead(Str(<<"A","m","y"," ","C","h","e","n">>), r, c, i, Str(<<"N","Y","C">>), b) :
        r \in RoleValues, c \in CompanyValues, i \in IndustryValues, b \in BioValues }

\* the field values the leads handed to calculateRuleScore directly are made of
RuleRoleValues ==
    { Str(<<"V","P"," ","o","f"," ","S","a","l","e","s">>),
      Str(<<"S","e","n","i","o","r"," ","D","i","r","e","c","t","o","r">>),
      Str(<<"c","e","o">>),
      Str(<<"S","a","l","e","s"," ","C","o","o","r","d","i","n","a","t","o","r">>),
      Str(<<"S","e","n","i","o","r"," ","E","n","g","i","n","e","e","r">>),
      Str(<<"t","e","a","m"," ","l","e","a","d">>),
      Str(<<"I","n","t","e","r","n">>),
      Str(<<>>),
      Str(<<" "," ">>) }
RuleIndustryValues ==
    { Str(<<"B","2","B"," ","S","a","a","S">>),
      Str(<<"F","i","n","t","e","c","h"," ","S","o","f","t","w","a","r","e">>),
      Str(<<"t","e","c","h","n","o","l","o","g","y">>),
      Str(<<"I","T"," ","S","e","r","v","i","c","e","s">>),
      Str(<<"e","-","c","o","m","m","e","r","c","e">>),
      Str(<<"R","e","t","a","i","l">>),
      Str(<<>>),
      Str(<<" ">>) }
RuleNameValues ==
    { Str(<<"A","m","y"," ","C","h","e","n">>),
      Str(<<>>) }
RuleCompanyValues ==
    { Str(<<"A","c","m","e">>),
      Str(<<" "," ">>) }
RuleLocationValues ==
    { Str(<<"N","Y","C">>),
      Str(<<>>),
      Undefined }
RuleBioValues ==
    { Str(<<"S","c","a","l","i","n","g"," ","o","u","t","b","o","u","n","d"," ","w","i","t","h"," ","a","u","t","o","m","a","t","i","o","n">>),
      Str(<<" ","\n","\t">>),
      Str(<<>>) }
RuleLeadSpace ==
    { Lead(n, r, c, i, l, b) :
        n \in RuleNameValues, r \in RuleRoleValues, c \in RuleCompanyValues,
        i \in RuleIndustryValues, l \in RuleLocationValues, b \in RuleBioValues }

\* a validated offer, and an object that is no Offer (it has no value_props)
ValidOffer ==
    [ name |-> Str(<<"A","I"," ","O","u","t","r","e","a","c","h">>),
      value_props |-> [t |-> "array", v |-> << <<"2","4","/","7"," ","o","u","t","r","e","a","c","h">>,
                                              <<"6","x"," ","m","o","r","e"," ","m","e","e","t","i","n","g","s">> >>],
      ideal_use_cases |-> [t |-> "array", v |-> << <<"B","2","B"," ","S","a","a","S"," ","m","i","d","-","m","a","r","k","e","t">> >>] ]
BrokenOffer ==
    [ name |-> Str(<<"A","I"," ","O","u","t","r","e","a","c","h">>),
      value_props |-> Undefined,
      ideal_use_cases |-> [t |-> "array", v |-> << <<"B","2","B"," ","S","a","a","S"," ","m","i","d","-","m","a","r","k","e","t">> >>] ]
OfferPool == <<ValidOffer, BrokenOffer>>

\* values of process.env.OPENAI_API_KEY: unset, empty, the .env.example placeholder, a key
ApiKeys ==
    { Undefined,
      Str(<<>>),
      Str(ApiKeyPlaceholder),
      Str(<<"s","k","-","l","i","v","e">>) }

\* completion.choices[0]?.message?.content: texts, no content at all, a non-string
Contents ==
    { Str(<<"I","N","T","E","N","T",":"," ","H","i","g","h","\n","R","E","A","S","O","N","I","N","G",":"," ","S","t","r","o","n","g"," ","f","i","t">>),
      Str(<<"I","N","T","E","N","T",":"," ","L","o","w","\n","R","E","A","S","O","N","I","N","G",":"," ","P","o","o","r"," ","f","i","t">>),
      Str(<<"I","N","T","E","N","T",":"," ","M","e","d","i","u","m">>),
      Str(<<"I","n","t","e","n","t"," ","i","s"," ","H","i","g","h">>),
      Str(<<"R","E","A","S","O","N","I","N","G",":"," ","U","n","c","l","e","a","r","\n","I","N","T","E","N","T",":"," ","H","i","g","h","l","y"," ","u","n","l","i","k","e","l","y",","," ","L","o","w">>),
      Str(<<"I","N","T","E","N","T",":"," ","L","o","w","\n","I","N","T","E","N","T",":"," ","H","i","g","h">>),
      Str(<<"I","N","T","E","N","T",":"," ","h","i","g","h",","," ","n","o","t"," ","l","o","w","\r","\n","R","E","A","S","O","N","I","N","G",":"," "," ","V","a","g","u","e"," ","\r">>),
      Str(<<" ","I","N","T","E","N","T",":"," ","L","o","w","\n","S","e","e"," ","R","E","A","S","O","N","I","N","G",":"," ","n","o","n","e">>),
      Str(<<" ","\n">>),
      Undefined,
      NumberValue }

Outcomes ==
    {[kind |-> "raise", content |-> Undefined], [kind |-> "noChoices", content |-> Undefined]}
        \cup {[kind |-> "content", content |-> c] : c \in Contents}

\* the outcomes drawn while a batch is scored: the call raises, or answers High or Low
BatchOutcomes ==
    { [kind |-> "raise", content |-> Undefined],
      [kind |-> "content", content |-> Str(<<"I","N","T","E","N","T",":"," ","H","i","g","h","\n","R","E","A","S","O","N","I","N","G",":"," ","S","t","r","o","n","g"," ","f","i","t">>)],
      [kind |-> "content", content |-> Str(<<"I","N","T","E","N","T",":"," ","L","o","w","\n","R","E","A","S","O","N","I","N","G",":"," ","P","o","o","r"," ","f","i","t">>)] }

\* JavaScript's null
Null == [t |-> "null", v |-> <<>>]

\* bodies of POST /offer: two offers the schema accepts (the second with a key the
\* schema does not know), and three it refuses
AcceptedBody == ValidOffer
AcceptedBodyWithNote ==
    [ name |-> Str(<<"C","R","M"," ","S","y","n","c">>),
      value_props |-> [t |-> "array", v |-> << <<"T","w","o","-","w","a","y"," ","s","y","n","c">> >>],
      ideal_use_cases |-> [t |-> "array", v |-> << <<"F","i","n","t","e","c","h"," ","b","a","c","k"," ","o","f","f","i","c","e">> >>],
      note |-> Str(<<"i","n","t","e","r","n","a","l">>) ]
BodyEmptyName ==
    [ name |-> Str(<<>>),
      value_props |-> [t |-> "array", v |-> << <<"2","4","/","7"," ","o","u","t","r","e","a","c","h">> >>],
      ideal_use_cases |-> [t |-> "array", v |-> << <<"B","2","B"," ","S","a","a","S"," ","m","i","d","-","m","a","r","k","e","t">> >>] ]
BodyNoValueProps ==
    [ name |-> Str(<<"A","I"," ","O","u","t","r","e","a","c","h">>),
      value_props |-> [t |-> "array", v |-> <<>>],
      ideal_use_cases |-> [t |-> "array", v |-> << <<"B","2","B"," ","S","a","a","S"," ","m","i","d","-","m","a","r","k","e","t">> >>] ]
BodyNoUseCases ==
    [ name |-> Str(<<"A","I"," ","O","u","t","r","e","a","c","h">>),
      value_props |-> [t |-> "array", v |-> << <<"2","4","/","7"," ","o","u","t","r","e","a","c","h">> >>],
      ideal_use_cases |-> Undefined ]
OfferBodies ==
    {AcceptedBody, AcceptedBodyWithNote, BodyEmptyName, BodyNoValueProps, BodyNoUseCases}

\* rows as csv-parser emits them: cells are strings, a cell the line lacks is undefined
AmyRow ==
    [ name |-> Str(<<" ","A","m","y"," ","C","h","e","n">>),
      role |-> Str(<<"V","P"," ","o","f"," ","S","a","l","e","s"," ">>),
      company |-> Str(<<"A","c","m","e">>),
      industry |-> Str(<<"B","2","B"," ","S","a","a","S">>),
      location |-> Str(<<"N","Y","C">>),
      linkedin_bio |-> Str(<<"S","c","a","l","i","n","g"," ","o","u","t","b","o","u","n","d"," ","w","i","t","h"," ","a","u","t","o","m","a","t","i","o","n">>) ]
BobRow ==
    [ name |-> Str(<<"B","o","b"," ","R","a","y">>),
      role |-> Str(<<"S","e","n","i","o","r"," ","E","n","g","i","n","e","e","r">>),
      company |-> Str(<<"I","n","i","t","e","c","h">>),
      industry |-> Str(<<"F","i","n","t","e","c","h">>),
      location |-> Str(<<"A","u","s","t","i","n">>),
      linkedin_bio |-> Str(<<"L","o","v","e","s"," ","g","o","l","f">>) ]
DiRow ==
    [ name |-> Str(<<"D","i"," ","F","o","x">>),
      role |-> Str(<<"M","a","n","a","g","e","r">>),
      company |-> Str(<<"H","o","o","l","i">>),
      industry |-> Str(<<"R","e","t","a","i","l">>),
      location |-> Str(<<"R","o","m","e">>),
      linkedin_bio |-> Undefined ]
NamelessRow ==
    [ name |-> Str(<<" "," ">>),
      role |-> Str(<<"I","n","t","e","r","n">>),
      company |-> Str(<<"G","l","o","b","e","x">>),
      industry |-> Str(<<"R","e","t","a","i","l">>),
      location |-> Undefined,
      linkedin_bio |-> Str(<<"L","o","v","e","s"," ","g","o","l","f">>) ]

\* the columns parseLeadsCSV requires
requiredColumns == <<"name", "role", "company", "industry", "location", "linkedin_bio">>

\* req.file and what reading it yields: the header line, the rows, and whether the
\* stream emits 'error'
CsvFile(headers, rows, streamError) ==
    [ present |-> TRUE, headers |-> headers, rows |-> rows, streamError |-> streamError ]
NoFile == [ present |-> FALSE, headers |-> <<>>, rows |-> <<>>, streamError |-> FALSE ]
FileAmyBob == CsvFile(requiredColumns, <<AmyRow, NamelessRow, BobRow>>, FALSE)
FileBobDi == CsvFile(<<"linkedin_bio", "location", "industry", "company", "role", "name", "phone">>,
                     <<BobRow, DiRow>>, FALSE)
FileNoBioColumn == CsvFile(<<"name", "role", "company", "industry", "location">>,
                           <<AmyRow>>, FALSE)
FileBroken == CsvFile(requiredColumns, <<AmyRow>>, TRUE)
FileNameless == CsvFile(requiredColumns, <<NamelessRow>>, FALSE)
Files == {NoFile, FileAmyBob, FileBobDi, FileNoBioColumn, FileBroken, FileNameless}

\* the outcomes of the external call drawn while the controller's pass is suspended
SessionOutcomes ==
    { [kind |-> "raise", content |-> Undefined],
      [kind |-> "content", content |-> Str(<<"I","N","T","E","N","T",":"," ","H","i","g","h","\n","R","E","A","S","O","N","I","N","G",":"," ","S","t","r","o","n","g"," ","f","i","t">>)] }

\* no uploadLeads request is in flight
NoUpload == [pc |-> "idle", before |-> <<>>]
\* nothing has been answered yet
NoResponse == [req |-> "none", status |-> "none", error |-> "", input |-> <<>>]

(***************************************************************************)
(* The state machine: a caller of LeadScoringService and the external      *)
(* completion service.                                                     *)
(***************************************************************************)
Init ==
    /\ apiKey \in ApiKeys
    /\ entry = "none"
    /\ leads = <<>>
    /\ offer = ValidOffer
    /\ pc = "idle"
    /\ idx = 0
    /\ ruleScore = 0
    /\ scoredLeads = <<>>
    /\ aiLog = <<>>
    /\ callLog = <<>>
    /\ ruleResult = Undefined
    /\ previous = <<>>
    /\ uploadedLeads = <<>>
    /\ controllerScoredLeads = <<>>
    /\ currentOffer = Null
    /\ upload = NoUpload
    /\ lastResponse = NoResponse

Become(next) ==
    /\ pc' = next.pc
    /\ idx' = next.idx
    /\ ruleScore' = next.ruleScore
    /\ scoredLeads' = next.scoredLeads
    /\ aiLog' = next.aiLog
    /\ callLog' = next.callLog

\* await scoreLeads(batch, off), up to its first suspension
scoreLeads ==
    /\ pc = "idle"
    /\ \E batch \in Batches, k \in 1..Len(OfferPool) :
          /\ entry' = "scoreLeads"
          /\ leads' = batch
          /\ offer' = OfferPool[k]
          /\ Become(scoreLeadsFrom(batch, OfferPool[k], apiKey, 1, <<>>, <<>>, <<>>))
    /\ UNCHANGED <<apiKey, ruleResult, previous, session>>

\* await scoreLead(lead, off), up to its suspension
scoreLead ==
    /\ pc = "idle"
    /\ \E lead \in LeadSpace, k \in 1..Len(OfferPool) :
          /\ entry' = "scoreLead"
          /\ leads' = <<lead>>
          /\ offer' = OfferPool[k]
          /\ Become(scoreLeadAlone(scoreLeadStart(lead, 1, OfferPool[k], apiKey), <<>>))
    /\ UNCHANGED <<apiKey, ruleResult, previous, session>>

\* ruleScoringService.calculateRuleScore(lead), called on its own
calculateRuleScoreCalled ==
    /\ pc = "idle"
    /\ \E lead \in RuleLeadSpace :
          /\ entry' = "calculateRuleScore"
          /\ leads' = <<lead>>
          /\ ruleResult' = calculateRuleScore(lead)
          /\ pc' = IF calculateRuleScore(lead).threw THEN "rejected" ELSE "returned"
    /\ UNCHANGED <<apiKey, offer, idx, ruleScore, scoredLeads, aiLog, callLog, previous,
                   session>>

\* the call of scoreLead that settled, as the caller keeps it
settledCall ==
    [ lead |-> leads[1], offer |-> offer, pc |-> pc, scoredLeads |-> scoredLeads ]

\* a caller that awaits scoreLead(lead, off) again and again: the next call starts
\* when the one before it has settled
scoreLeadRepeatedly ==
    /\ pc \in {"idle", "returned", "rejected"}
    /\ entry \in {"none", "scoreLeadRepeatedly"}
    /\ Len(previous) + 1 < MaxCalls \/ pc = "idle"
    /\ previous' = IF pc = "idle" THEN previous ELSE Append(previous, settledCall)
    /\ \E lead \in LeadPool, k \in 1..Len(OfferPool) :
          /\ entry' = "scoreLeadRepeatedly"
          /\ leads' = <<lead>>
          /\ offer' = OfferPool[k]
          /\ Become(scoreLeadAlone(scoreLeadStart(lead, 1, OfferPool[k], apiKey), <<>>))
    /\ UNCHANGED <<apiKey, ruleResult, session>>

\* the external call settles: scoreWithAI and scoreLead run to their return, and
\* scoreLeads goes on with the next lead
ExternalCallSettles ==
    /\ pc = "awaiting"
    /\ \E outcome \in (IF entry = "scoreLead" THEN Outcomes ELSE BatchOutcomes) :
          IF entry = "scoreLeads"
          THEN Become(scoreLeadsResume(leads, offer, apiKey, idx, ruleScore, outcome,
                                       scoredLeads, aiLog, callLog))
          ELSE Become(scoreLeadAlone(scoreLeadResume(leads[1], 1, ruleScore, outcome),
                                     callLog))
    /\ UNCHANGED <<apiKey, entry, leads, offer, ruleResult, previous, session>>

Next == scoreLeads \/ scoreLead \/ calculateRuleScoreCalled \/ ExternalCallSettles

Spec == Init /\ [][Next]_vars

\* a caller of scoreLeads alone
NextBatch == scoreLeads \/ ExternalCallSettles

\* the pending external call settles: the suspended call of scoreLeads moves on, to
\* the next lead's external call or to its return
CallSettles ==
    /\ pc = "awaiting"
    /\ pc' \in {"awaiting", "returned"}
    /\ idx' \in 0..MaxBatch

\* every dispatched external call eventually returns or raises
SpecLive == Init /\ [][NextBatch]_vars /\ WF_<<pc, idx>>(CallSettles)

\* one caller awaiting scoreLead up to MaxCalls times
NextRepeat == scoreLeadRepeatedly \/ ExternalCallSettles

SpecRepeat == Init /\ [][NextRepeat]_vars

(***************************************************************************)
(* The session: OfferController and LeadController behind the HTTP routes. *)
(* Requests arrive at any time; a handler runs until it awaits, and        *)
(* another request may be served while it is suspended.  One uploadLeads   *)
(* request and one scoreLeads request are in flight at a time.             *)
(***************************************************************************)
\* res.json / the error handed to the error middleware, with the request answered
Respond(req, status, error, input) ==
    [req |-> req, status |-> status, error |-> error, input |-> input]

\* offerSchema.parse(req.body): the validated object holds the schema's three keys,
\* or a ZodError is thrown
offerSchemaParse(body) ==
    IF /\ body.name.t = "string" /\ Len(body.name.v) >= 1
       /\ body.value_props.t = "array" /\ Len(body.value_props.v) >= 1
       /\ body.ideal_use_cases.t = "array" /\ Len(body.ideal_use_cases.v) >= 1
    THEN Ok([ name |-> body.name, value_props |-> body.value_props,
              ideal_use_cases |-> body.ideal_use_cases ])
    ELSE Throw

\* POST /offer
OfferController_createOffer ==
    /\ \E body \in OfferBodies :
          LET validatedData == offerSchemaParse(body)
          IN  IF validatedData.threw
              THEN /\ lastResponse' = Respond("createOffer", "400", "Validation error", body)
                   /\ UNCHANGED currentOffer
              ELSE /\ currentOffer' = validatedData.value
                   /\ lastResponse' = Respond("createOffer", "201", "", body)
    /\ UNCHANGED <<apiKey, entry, leads, offer, pc, idx, ruleScore, scoredLeads, aiLog,
                   callLog, ruleResult, previous,
                   uploadedLeads, controllerScoredLeads, upload>>

\* (cell || '').trim()
cleanCell(cell) == IF Truthy(cell) THEN Str(trim(cell.v)) ELSE Str(<<>>)
\* the lead parseLeadsCSV's 'data' handler builds from a row
cleanLead(row) ==
    Lead(cleanCell(row.name), cleanCell(row.role), cleanCell(row.company),
         cleanCell(row.industry), cleanCell(row.location), cleanCell(row.linkedin_bio))

\* a promise rejected with an AppError of the given message
Rejected(message) == [threw |-> TRUE, error |-> message, value |-> <<>>]

\* csvParser.parseLeadsCSV(filePath): the leads with a name, or a rejection
parseLeadsCSV(file) ==
    IF \E c \in 1..Len(requiredColumns) :
           \A h \in 1..Len(file.headers) : file.headers[h] # requiredColumns[c]
    THEN Rejected("Missing required columns")
    ELSE IF file.streamError
    THEN Rejected("Failed to parse CSV file")
    ELSE [ threw |-> FALSE, error |-> "",
           value |-> SelectSeq([n \in 1..Len(file.rows) |-> cleanLead(file.rows[n])],
                               LAMBDA lead : Truthy(lead.name)) ]

\* POST /leads/upload, up to the await of unlink: the handler reads and writes no
\* field of the controller before parseLeadsCSV has settled, so the arrival of the
\* request and the settling of its parse are one step
LeadController_uploadLeads ==
    /\ upload.pc = "idle"
    /\ \E file \in Files :
          IF ~file.present
          THEN /\ lastResponse' = Respond("uploadLeads", "400", "No file uploaded", uploadedLeads)
               /\ UNCHANGED <<upload, uploadedLeads>>
          ELSE LET parsed == parseLeadsCSV(file)
               IN  IF parsed.threw
                   THEN /\ lastResponse' = Respond("uploadLeads", "400", parsed.error,
                                                   uploadedLeads)
                        /\ UNCHANGED <<upload, uploadedLeads>>
                   ELSE IF Len(parsed.value) = 0
                   THEN /\ lastResponse' = Respond("uploadLeads", "400",
                                                   "CSV file contains no valid leads",
                                                   uploadedLeads)
                        /\ UNCHANGED <<upload, uploadedLeads>>
                   ELSE /\ uploadedLeads' = parsed.value
                        /\ upload' = [pc |-> "unlinking", before |-> uploadedLeads]
                        /\ UNCHANGED lastResponse
    /\ UNCHANGED <<apiKey, entry, leads, offer, pc, idx, ruleScore, scoredLeads, aiLog,
                   callLog, ruleResult, previous, controllerScoredLeads, currentOffer>>

\* await unlink(filePath) settles: the success response, or the catch block
\* rethrowing the file system's error
unlinkSettles ==
    /\ upload.pc = "unlinking"
    /\ \E removed \in BOOLEAN :
          lastResponse' = IF removed
                          THEN Respond("uploadLeads", "200", "", upload.before)
                          ELSE Respond("uploadLeads", "thrown", "unlink failed", upload.before)
    /\ upload' = NoUpload
    /\ UNCHANGED <<apiKey, entry, leads, offer, pc, idx, ruleScore, scoredLeads, aiLog,
                   callLog, ruleResult, previous,
                   uploadedLeads, controllerScoredLeads, currentOffer>>

\* scoreLeads' two checks with the check of uploadedLeads left out
scorePreconditionOfferOnly(ul, off) ==
    IF off = Null THEN "No offer found"
    ELSE ""

\* the AppError LeadController.scoreLeads throws before scoring, "" if none
scorePrecondition(ul, off) ==
    IF Len(ul) = 0 THEN "No leads uploaded"
    ELSE IF off = Null THEN "No offer found"
    ELSE ""

\* a suspended pass reading the controller's fields again when it is resumed
passLeadsReread == uploadedLeads
passOfferReread == currentOffer

\* the arguments leadScoringService.scoreLeads was called with, which its loop keeps
passLeads == leads
passOffer == offer

\* the controller's scoreLeads once the service has returned: the records are stored
\* and the response is sent; while the service is suspended nothing is stored
storeWhenReturned(next) ==
    IF next.pc = "returned"
    THEN /\ controllerScoredLeads' = next.scoredLeads
         /\ lastResponse' = Respond("scoreLeads", "200", "", <<>>)
    ELSE UNCHANGED <<controllerScoredLeads, lastResponse>>

\* POST /score, up to the first suspension of the service
LeadController_scoreLeads ==
    /\ pc \in {"idle", "returned"}
    /\ LET failed == scorePrecondition(uploadedLeads, currentOffer)
       IN  IF failed # ""
           THEN /\ lastResponse' = Respond("scoreLeads", "400", failed, <<>>)
                /\ UNCHANGED <<entry, leads, offer, pc, idx, ruleScore, scoredLeads, aiLog,
                               callLog, controllerScoredLeads>>
           ELSE /\ entry' = "scoreLeads"
                /\ leads' = uploadedLeads
                /\ offer' = currentOffer
                /\ Become(scoreLeadsFrom(uploadedLeads, currentOffer, apiKey, 1,
                                         <<>>, <<>>, <<>>))
                /\ storeWhenReturned(scoreLeadsFrom(uploadedLeads, currentOffer, apiKey, 1,
                                                    <<>>, <<>>, <<>>))
    /\ UNCHANGED <<apiKey, ruleResult, previous, uploadedLeads, currentOffer, upload>>

\* the external call of the suspended pass settles: the service goes on with the
\* next lead, and the controller stores the records when the service returns
LeadController_scoreLeadsResumes ==
    /\ pc = "awaiting"
    /\ \E outcome \in SessionOutcomes :
          /\ Become(scoreLeadsResume(passLeads, passOffer, apiKey, idx, ruleScore, outcome,
                                     scoredLeads, aiLog, callLog))
          /\ storeWhenReturned(scoreLeadsResume(passLeads, passOffer, apiKey, idx, ruleScore,
                                                outcome, scoredLeads, aiLog, callLog))
    /\ UNCHANGED <<apiKey, entry, leads, offer, ruleResult, previous,
                   uploadedLeads, currentOffer, upload>>

\* GET /results
LeadController_getResults ==
    /\ lastResponse' = IF Len(controllerScoredLeads) = 0
                       THEN Respond("getResults", "404", "No scored leads available", <<>>)
                       ELSE Respond("getResults", "200", "", <<>>)
    /\ UNCHANGED <<apiKey, entry, leads, offer, pc, idx, ruleScore, scoredLeads, aiLog,
                   callLog, ruleResult, previous,
                   uploadedLeads, controllerScoredLeads, currentOffer, upload>>

\* GET /export/csv
LeadController_exportResultsCSV ==
    /\ lastResponse' = IF Len(controllerScoredLeads) = 0
                       THEN Respond("exportResultsCSV", "404", "No scored leads available", <<>>)
                       ELSE Respond("exportResultsCSV", "200", "", <<>>)
    /\ UNCHANGED <<apiKey, entry, leads, offer, pc, idx, ruleScore, scoredLeads, aiLog,
                   callLog, ruleResult, previous,
                   uploadedLeads, controllerScoredLeads, currentOffer, upload>>

\* the environment's key is unset or set
InitSession == Init /\ apiKey \in {Undefined, Str(<<"s","k","-","l","i","v","e">>)}

NextSession ==
    \/ OfferController_createOffer
    \/ LeadController_uploadLeads
    \/ unlinkSettles
    \/ LeadController_scoreLeads
    \/ LeadController_scoreLeadsResumes
    \/ LeadController_getResults
    \/ LeadController_exportResultsCSV

SpecSession == InitSession /\ [][NextSession]_vars

(***************************************************************************)
(* Properties.                                                             *)
(***************************************************************************)
\* a call of scoreLead or scoreLeads returned
Returned == pc = "returned" /\ entry # "calculateRuleScore"
BatchReturned == entry = "scoreLeads" /\ pc = "returned"
Positions == 1..Len(scoredLeads)
IsPlaceholder(r) == r.reasoning = ErrorReasoning
LeadOf(r) == Lead(r.name, r.role, r.company, r.industry, r.location, r.linkedin_bio)
\* the rule engine raises on the lead at position p of the input
RuleEngineFaults(p) == calculateRuleScore(leads[p]).threw

\* C1: scoreLeads is length-preserving: the returned sequence has as many records as
\* the input, whatever mix of leads scored normally or failed; scoreLeads([]) returns
\* [] and scoreLeads never rejects.
C1_LengthPreserved ==
    /\ BatchReturned => Len(scoredLeads) = Len(leads)
    /\ entry = "scoreLeads" => pc # "rejected"
    /\ (entry = "scoreLeads" /\ Len(leads) = 0) => (pc = "returned" /\ scoredLeads = <<>>)

\* a returned batch in which one lead failed and another scored normally
C1_Witness ==
    /\ BatchReturned
    /\ Len(leads) >= 2
    /\ \E i, j \in Positions : IsPlaceholder(scoredLeads[i]) /\ ~IsPlaceholder(scoredLeads[j])

\* C2: the returned sequence is sorted non-increasing by score, and records of equal
\* score keep the relative order their leads had in the input.
C2_SortedStable ==
    BatchReturned =>
        \A i, j \in Positions :
            i < j => /\ scoredLeads[i].score >= scoredLeads[j].score
                     /\ scoredLeads[i].score = scoredLeads[j].score
                            => scoredLeads[i].pos < scoredLeads[j].pos

\* a returned batch the sort reordered and in which two records tie
C2_Witness ==
    /\ BatchReturned
    /\ \E i, j \in Positions : i < j /\ scoredLeads[i].pos > scoredLeads[j].pos
    /\ \E i, j \in Positions : i < j /\ scoredLeads[i].score = scoredLeads[j].score
                                     /\ LeadOf(scoredLeads[i]) # LeadOf(scoredLeads[j])

\* C3: no lead is lost, duplicated or altered: every input position yields exactly one
\* returned record, and that record carries the six fields of the lead at that position.
C3_LeadsPermuted ==
    BatchReturned =>
        /\ Len(scoredLeads) = Len(leads)
        /\ \A p \in 1..Len(leads) :
               /\ Cardinality({i \in Positions : scoredLeads[i].pos = p}) = 1
               /\ \A i \in Positions :
                      scoredLeads[i].pos = p => LeadOf(scoredLeads[i]) = leads[p]

\* a returned batch holding the same lead twice, with a placeholder record and a
\* normally scored one
C3_Witness ==
    /\ BatchReturned
    /\ \E p, q \in 1..Len(leads) : p < q /\ leads[p] = leads[q]
    /\ \E i, j \in Positions : IsPlaceholder(scoredLeads[i]) /\ ~IsPlaceholder(scoredLeads[j])

\* C4: every record emitted by scoreLead or scoreLeads, the placeholder included, has
\* score = rule_score + ai_score, 0 <= rule_score <= 50, 0 <= ai_score <= 50 and
\* 0 <= score <= 100.
C4_ScoreArithmetic ==
    \A i \in Positions :
        LET r == scoredLeads[i]
        IN  /\ r.score = r.rule_score + r.ai_score
            /\ r.rule_score \in 0..50
            /\ r.ai_score \in 0..50
            /\ r.score \in 0..100

\* a returned batch with a placeholder record and a record of score 100
C4_Witness ==
    /\ BatchReturned
    /\ \E i, j \in Positions : IsPlaceholder(scoredLeads[i]) /\ scoredLeads[j].score = 100

\* C5: the intent of every emitted record is decided by its total score alone: High iff
\* score >= 70, Medium iff 40 <= score < 70, Low iff score < 40, whatever label the
\* classifier returned.
C5_IntentFromTotal ==
    \A i \in Positions :
        LET r == scoredLeads[i]
        IN  /\ r.intent = "High" <=> r.score >= 70
            /\ r.intent = "Medium" <=> (40 <= r.score /\ r.score < 70)
            /\ r.intent = "Low" <=> r.score < 40

\* the classifier answered High for a lead of rule score 0: the record's intent is Medium
C5_Witness ==
    /\ Returned
    /\ \E i \in Positions, k \in 1..Len(aiLog) :
           /\ aiLog[k].pos = scoredLeads[i].pos
           /\ aiLog[k].ret.intent = "High"
           /\ scoredLeads[i].rule_score = 0
           /\ scoredLeads[i].intent = "Medium"

\* the external call for the lead at position p raised
CallRaised(p) == \E k \in 1..Len(aiLog) : aiLog[k].pos = p /\ aiLog[k].fault = "raise"
ThreeLeadsSecondRaised == BatchReturned /\ Len(leads) = 3 /\ CallRaised(2)

\* C6, as claimed: in a batch of 3 leads where the 2nd lead's classifier call throws,
\* 3 records are returned and the 2nd lead's record is the placeholder: rule_score 20,
\* ai_score 20, score 40, intent Medium, reasoning "Error during scoring process".
C6_AsClaimed ==
    ThreeLeadsSecondRaised =>
        /\ Len(scoredLeads) = 3
        /\ \A i \in Positions :
               scoredLeads[i].pos = 2 =>
                   /\ scoredLeads[i].rule_score = 20
                   /\ scoredLeads[i].ai_score = 20
                   /\ scoredLeads[i].score = 40
                   /\ scoredLeads[i].intent = "Medium"
                   /\ scoredLeads[i].reasoning = ErrorReasoning

\* C6, amended: in a batch of 3 leads where the 2nd lead's classifier call throws, 3
\* records are returned and the 2nd lead's record has the rule engine's rule_score,
\* ai_score 30, score = rule_score + 30, the intent of that total and the reasoning
\* "Unable to determine intent via AI analysis"; the placeholder (rule_score 20,
\* ai_score 20, score 40, Medium, "Error during scoring process") is the record of
\* exactly the leads on which the rule engine raises.
C6_RaisedCallDegrades ==
    /\ ThreeLeadsSecondRaised =>
        /\ Len(scoredLeads) = 3
        /\ \E i \in Positions : scoredLeads[i].pos = 2
        /\ \A i \in Positions :
               scoredLeads[i].pos = 2 =>
                   LET r == scoredLeads[i]
                   IN  /\ r.rule_score = calculateRuleScore(leads[2]).value.score
                       /\ r.ai_score = 30
                       /\ r.score = r.rule_score + 30
                       /\ r.intent = (IF r.score >= 70 THEN "High"
                                       ELSE IF r.score >= 40 THEN "Medium" ELSE "Low")
                       /\ r.reasoning = UnableReasoning
    /\ BatchReturned =>
        \A i \in Positions :
            LET r == scoredLeads[i]
            IN  /\ IsPlaceholder(r) <=> RuleEngineFaults(r.pos)
                /\ IsPlaceholder(r) =>
                       /\ r.rule_score = 20 /\ r.ai_score = 20 /\ r.score = 40
                       /\ r.intent = "Medium"

\* a returned batch of 3 leads whose 2nd external call raised
C6_Witness == ThreeLeadsSecondRaised

\* C7: scoreWithAI never propagates a failure: a lead the rule engine accepts always
\* gets a (score, intent, reasoning) value from scoreWithAI, whether the credential is
\* absent, the external call raises or the heuristic faults; so scoreLead rejects, and
\* scoreLeads emits the placeholder, only for leads on which the rule engine raises.
C7_ClassifierNeverThrows ==
    /\ (entry = "scoreLead" /\ pc = "rejected") => RuleEngineFaults(1)
    /\ \A i \in Positions : IsPlaceholder(scoredLeads[i]) => RuleEngineFaults(scoredLeads[i].pos)
    /\ Returned =>
           \A p \in 1..Len(leads) :
               ~RuleEngineFaults(p) =>
                   \E k \in 1..Len(aiLog) :
                       /\ aiLog[k].pos = p
                       /\ aiLog[k].ret.score \in Nat
                       /\ aiLog[k].ret.intent \in {"High", "Medium", "Low"}
                       /\ \E i \in Positions :
                              /\ scoredLeads[i].pos = p
                              /\ scoredLeads[i].reasoning = aiLog[k].ret.reasoning
                              /\ scoredLeads[i].ai_score = aiLog[k].ret.score

\* with no credential, the heuristic faulted on a lead and scoreWithAI still returned
C7_Witness ==
    /\ Returned
    /\ \E k \in 1..Len(aiLog) : aiLog[k].fault = "heuristic"

\* C8: the classifier's score is always 10, 30 or 50, on the primary, the fallback and
\* the runtime-failure path, and matches the label it returns: High 50, Medium 30, Low 10.
C8_AiScoreMatchesLabel ==
    \A k \in 1..Len(aiLog) :
        LET ai == aiLog[k].ret
        IN  /\ ai.score \in {10, 30, 50}
            /\ ai.intent = "High" <=> ai.score = 50
            /\ ai.intent = "Medium" <=> ai.score = 30
            /\ ai.intent = "Low" <=> ai.score = 10

\* one call in which the service answered Low for a lead and raised for another
C8_Witness ==
    \E k, m \in 1..Len(aiLog) :
        /\ aiLog[k].path = "primary" /\ aiLog[k].ret.intent = "Low"
        /\ aiLog[m].path = "failure" /\ aiLog[m].fault = "raise"

\* the credential is absent: unset, empty, or the placeholder of the example file
CredentialAbsent ==
    \/ apiKey.t = "undefined"
    \/ apiKey.t = "string" /\ (apiKey.v = <<>> \/ apiKey.v = ApiKeyPlaceholder)

\* C9: when the credential is absent, no external call is dispatched and scoreWithAI
\* returns the result of the local heuristic, for every lead whose linkedin_bio and
\* industry are texts (the heuristic returns a result for exactly those).
C9_NoCredentialUsesHeuristic ==
    CredentialAbsent =>
        /\ callLog = <<>>
        /\ pc # "awaiting"
        /\ \A k \in 1..Len(aiLog) :
               LET lead == leads[aiLog[k].pos]
               IN  /\ aiLog[k].path # "primary"
                   /\ (IsString(lead.linkedin_bio) /\ IsString(lead.industry)) =>
                          /\ aiLog[k].path = "fallback"
                          /\ aiLog[k].ret = fallbackScoring(lead, offer).value

\* the key is the placeholder and a batch was scored by the heuristic
C9_Witness ==
    /\ apiKey = Str(ApiKeyPlaceholder)
    /\ BatchReturned
    /\ \E k \in 1..Len(aiLog) : aiLog[k].path = "fallback"

\* the keywords of the claim, in lower case
GrowthKeywords ==
    { <<"s","c","a","l","e">>,
      <<"g","r","o","w","t","h">>,
      <<"a","u","t","o","m","a","t","i","o","n">>,
      <<"a","i">>,
      <<"e","f","f","i","c","i","e","n","c","y">>,
      <<"p","r","o","d","u","c","t","i","v","i","t","y">> }

\* C10: the heuristic's result is High (50) iff the lower-cased bio contains a keyword
\* and the lower-cased industry contains "saas"; Low (10) iff the bio contains no
\* keyword and the lower-cased industry does not contain "tech"; Medium (30) otherwise;
\* its reasoning is "Based on profile analysis: <role> in <industry> industry.".
C10_FallbackHeuristic ==
    \A k \in 1..Len(aiLog) :
        aiLog[k].path = "fallback" =>
            LET lead == leads[aiLog[k].pos]
                ai == aiLog[k].ret
                bio == toLowerCase(lead.linkedin_bio.v)
                industry == toLowerCase(lead.industry.v)
                hasKeyword == \E kw \in GrowthKeywords : includes(bio, kw)
                saas == includes(industry, <<"s","a","a","s">>)
                tech == includes(industry, <<"t","e","c","h">>)
            IN  /\ (ai.intent = "High" /\ ai.score = 50) <=> (hasKeyword /\ saas)
                /\ (ai.intent = "Low" /\ ai.score = 10) <=> (~hasKeyword /\ ~tech)
                /\ (ai.intent = "Medium" /\ ai.score = 30)
                       <=> ~((hasKeyword /\ saas) \/ (~hasKeyword /\ ~tech))
                /\ ai.reasoning = <<"B","a","s","e","d"," ","o","n"," ","p","r","o","f","i","l","e"," ","a","n","a","l","y","s","i","s",":"," ">>
                                    \o ToText(lead.role) \o <<" ","i","n"," ">>
                                    \o ToText(lead.industry) \o <<" ","i","n","d","u","s","t","r","y",".">>

\* the heuristic classified High a lead whose industry is written "B2B SaaS"
C10_Witness ==
    /\ Returned
    /\ \E k \in 1..Len(aiLog) :
           /\ aiLog[k].path = "fallback"
           /\ aiLog[k].ret.intent = "High"
           /\ leads[aiLog[k].pos].industry = Str(<<"B","2","B"," ","S","a","a","S">>)

\* C11: when the credential is present and the dispatched external call raises,
\* scoreWithAI returns score 30, intent Medium and the reasoning "Unable to determine
\* intent via AI analysis"; the local heuristic is not applied.
C11_RaisedCallDefault ==
    \A k \in 1..Len(aiLog) :
        aiLog[k].fault = "raise" =>
            /\ ~CredentialAbsent
            /\ \E c \in 1..Len(callLog) : callLog[c].pos = aiLog[k].pos
            /\ aiLog[k].ret.score = 30
            /\ aiLog[k].ret.intent = "Medium"
            /\ aiLog[k].ret.reasoning = UnableReasoning
            /\ \A i \in Positions :
                   scoredLeads[i].pos = aiLog[k].pos =>
                       /\ scoredLeads[i].ai_score = 30
                       /\ scoredLeads[i].reasoning = UnableReasoning

\* the call raised for a lead the heuristic would have classified High
C11_Witness ==
    /\ Returned
    /\ \E k \in 1..Len(aiLog) :
           /\ aiLog[k].fault = "raise"
           /\ ~fallbackScoring(leads[aiLog[k].pos], offer).threw
           /\ fallbackScoring(leads[aiLog[k].pos], offer).value.intent = "High"
           /\ aiLog[k].ret.intent = "Medium"

\* the response text has no line starting with "INTENT:" or with "REASONING:"
NoMarkerLine(response) ==
    \A n \in 1..Len(split(response)) :
        /\ ~startsWith(split(response)[n], IntentMarker)
        /\ ~startsWith(split(response)[n], ReasoningMarker)
\* the call for entry e of aiLog returned a text (or no content) without marker lines
UnmarkedResponse(e) == e.path = "primary" /\ NoMarkerLine(e.response)

\* C12, as claimed: a response with no INTENT line and no REASONING line gives the
\* degraded default with the "unable to determine" reasoning, the same result as for a
\* call that raised.
C12_AsClaimed ==
    \A k \in 1..Len(aiLog) :
        UnmarkedResponse(aiLog[k]) =>
            /\ aiLog[k].ret.score = 30
            /\ aiLog[k].ret.intent = "Medium"
            /\ aiLog[k].ret.reasoning = UnableReasoning

\* C12, amended: a response with no INTENT line and no REASONING line gives score 30
\* and intent Medium, as a call that raised does, but with the reasoning "AI analysis
\* completed" instead of the "unable to determine" text.
C12_UnmarkedResponseMedium ==
    \A k \in 1..Len(aiLog) :
        UnmarkedResponse(aiLog[k]) =>
            /\ aiLog[k].ret.score = 30
            /\ aiLog[k].ret.intent = "Medium"
            /\ aiLog[k].ret.reasoning = CompletedReasoning
            /\ aiLog[k].ret.reasoning # UnableReasoning

\* the service answered with an empty text
C12_Witness ==
    /\ Returned
    /\ \E k \in 1..Len(aiLog) : UnmarkedResponse(aiLog[k]) /\ aiLog[k].response = <<>>

\* the lines of a response that start with the marker
MarkerLines(response, marker) ==
    {n \in 1..Len(split(response)) : startsWith(split(response)[n], marker)}
\* the greatest member of a non-empty set of line numbers
LastOf(S) == CHOOSE n \in S : \A m \in S : m <= n
\* the text of a line behind a marker of the given length
Remainder(line, marker) == SubSeq(line, Len(marker) + 1, Len(line))

\* C13: a line starting with "INTENT:" resolves the label to High if its remainder
\* contains "High", else Low if it contains "Low", else Medium (the last such line
\* decides); with no such line the label is Medium; a line starting with "REASONING:"
\* supplies the reasoning (its remainder, trimmed), else the text is "AI analysis
\* completed".
C13_ResponseParsing ==
    \A k \in 1..Len(aiLog) :
        aiLog[k].path = "primary" =>
            LET response == aiLog[k].response
                lines == split(response)
                intents == MarkerLines(response, IntentMarker)
                reasons == MarkerLines(response, ReasoningMarker)
                rest == Remainder(lines[LastOf(intents)], IntentMarker)
            IN  /\ aiLog[k].ret.intent =
                       ( IF intents = {} THEN "Medium"
                         ELSE IF includes(rest, HighText) THEN "High"
                         ELSE IF includes(rest, LowText) THEN "Low"
                         ELSE "Medium" )
                /\ aiLog[k].ret.reasoning =
                       ( IF reasons = {} THEN CompletedReasoning
                         ELSE trim(Remainder(lines[LastOf(reasons)], ReasoningMarker)) )

\* the response put REASONING first and an INTENT line holding both "High" and "Low"
C13_Witness ==
    /\ Returned
    /\ \E k \in 1..Len(aiLog) :
           /\ aiLog[k].path = "primary"
           /\ aiLog[k].response = <<"R","E","A","S","O","N","I","N","G",":"," ","U","n","c","l","e","a","r","\n","I","N","T","E","N","T",":"," ","H","i","g","h","l","y"," ","u","n","l","i","k","e","l","y",","," ","L","o","w">>
           /\ aiLog[k].ret.intent = "High"

\* calculateRuleScore was called on its own and returned
RuleReturned == entry = "calculateRuleScore" /\ pc = "returned"
\* the breakdown it returned
Breakdown == ruleResult.value.breakdown
\* the six fields of a lead
SixFields(lead) ==
    {lead.name, lead.role, lead.company, lead.industry, lead.location, lead.linkedin_bio}
\* a field holding a text with at least one character that is no white space
NonBlank(field) ==
    field.t = "string" /\ \E n \in 1..Len(field.v) : field.v[n] \notin WhiteSpace
\* text contains one of the keywords, letter case disregarded
ContainsKeyword(text, keywords) ==
    \E k \in 1..Len(keywords) :
        \E start \in 0..(Len(text) - Len(keywords[k])) :
            \A j \in 1..Len(keywords[k]) :
                toLowerCaseChar(text[start + j]) = toLowerCaseChar(keywords[k][j])

\* C14: completeness_score is 10 if and only if all six lead fields are non-empty
\* after trimming whitespace; if any field is empty or whitespace-only it is 0.
C14_CompletenessAllSix ==
    RuleReturned =>
        /\ Breakdown.completeness_score \in {0, 10}
        /\ Breakdown.completeness_score = 10 <=> \A f \in SixFields(leads[1]) : NonBlank(f)

\* five fields are filled and linkedin_bio holds white space only: the score is 0
C14_Witness ==
    /\ RuleReturned
    /\ \A f \in SixFields(leads[1]) \ {leads[1].linkedin_bio} : NonBlank(f)
    /\ leads[1].linkedin_bio.t = "string" /\ Len(leads[1].linkedin_bio.v) > 0
    /\ Breakdown.completeness_score = 0

C18_AsDocumented ==
    RuleReturned =>
        Breakdown.role_score =
            ( IF ContainsKeyword(leads[1].role.v, DECISION_MAKER_ROLES) THEN 20
              ELSE IF ContainsKeyword(leads[1].role.v, INFLUENCER_ROLES) THEN 15
              ELSE 5 )

\* the outcome of a settled call of scoreLead: how it settled and what it returned
Settled == pc \in {"returned", "rejected"}
CurrentCall == settledCall

\* C19: with no credential, two calls of scoreLead with the same lead and the same
\* offer settle alike, with records equal in every field, and the result depends
\* neither on the calls made before nor on the offer.
C19_FallbackDeterministic ==
    (entry = "scoreLeadRepeatedly" /\ Settled /\ CredentialAbsent) =>
        \A n \in 1..Len(previous) :
            previous[n].lead = CurrentCall.lead =>
                /\ previous[n].pc = CurrentCall.pc
                /\ previous[n].scoredLeads = CurrentCall.scoredLeads

\* the third call repeats the first one's lead under another offer, after a call for
\* a different lead, and returned a record
C19_Witness ==
    /\ entry = "scoreLeadRepeatedly" /\ pc = "returned" /\ CredentialAbsent
    /\ Len(previous) = 2
    /\ previous[1].lead = leads[1]
    /\ previous[1].offer # offer
    /\ previous[2].lead # leads[1]
    /\ Len(scoredLeads) = 1

\* C20: with the fallback path active, the lead Amy Chen (VP of Sales, Acme, B2B SaaS,
\* NYC, "Scaling outbound with automation") and any valid offer yield role_score 20,
\* industry_score 20, completeness_score 10, rule_score 50, ai_score 50, score 100 and
\* intent High.
C20_AmyChenScenario ==
    /\ (RuleReturned /\ leads[1] = AmyChen) =>
           Breakdown = [ role_score |-> 20, industry_score |-> 20,
                         completeness_score |-> 10, total_rule_score |-> 50 ]
    /\ (entry = "scoreLead" /\ CredentialAbsent /\ leads = <<AmyChen>>) =>
           /\ pc = "returned"
           /\ Len(scoredLeads) = 1
           /\ LeadOf(scoredLeads[1]) = AmyChen
           /\ scoredLeads[1].rule_score = 50
           /\ scoredLeads[1].ai_score = 50
           /\ scoredLeads[1].score = 100
           /\ scoredLeads[1].intent = "High"

\* scoreLead returned Amy Chen's record for the valid offer without a credential
C20_Witness ==
    /\ entry = "scoreLead" /\ pc = "returned" /\ CredentialAbsent
    /\ leads = <<AmyChen>>
    /\ offer = ValidOffer
    /\ scoredLeads[1].score = 100

\* C24: within one scoring pass the external service is called at most once per lead,
\* with no retry after a failure, and leads are processed one after another in input
\* order: when the call for a lead is dispatched, the records of all leads before it
\* have been appended and no record of a later lead exists.
C24_OneCallPerLeadInOrder ==
    entry = "scoreLeads" =>
        /\ \A a, b \in 1..Len(callLog) : a < b => callLog[a].pos < callLog[b].pos
        /\ \A a \in 1..Len(callLog) : callLog[a].pos \in 1..Len(leads)
        /\ \A k \in 1..Len(aiLog) :
               aiLog[k].fault = "raise" =>
                   Cardinality({a \in 1..Len(callLog) : callLog[a].pos = aiLog[k].pos}) = 1
        /\ pc = "awaiting" =>
               /\ Len(callLog) > 0 /\ callLog[Len(callLog)].pos = idx
               /\ Len(scoredLeads) = idx - 1
               /\ {scoredLeads[i].pos : i \in 1..Len(scoredLeads)} = 1..(idx - 1)

\* the pass is suspended on the third lead's call after the second lead's call raised
C24_Witness ==
    /\ entry = "scoreLeads" /\ pc = "awaiting" /\ idx = 3
    /\ Len(callLog) = 3
    /\ \E k \in 1..Len(aiLog) : aiLog[k].pos = 2 /\ aiLog[k].fault = "raise"

\* C27: if every dispatched external call eventually returns or raises, scoreLeads
\* eventually returns for every batch; and nothing but the settling of the pending call
\* resumes a suspended batch (there is no timeout), so while a call does not complete
\* no later lead is scored.
C27_BatchTerminates ==
    /\ (entry = "scoreLeads") ~> (entry = "scoreLeads" /\ pc = "returned")
    /\ [][ (entry = "scoreLeads" /\ pc = "awaiting") =>
               \/ ExternalCallSettles
               \/ UNCHANGED <<pc, idx, scoredLeads, aiLog, callLog>> ]_vars

\* a batch of three leads, each of which needed the external call, has been returned
C27_Witness ==
    /\ BatchReturned
    /\ Len(leads) = 3
    /\ Len(callLog) = 3
    /\ Len(scoredLeads) = 3

\* the leads the records of the results slot were scored for
ResultLeads == {LeadOf(controllerScoredLeads[i]) : i \in 1..Len(controllerScoredLeads)}
\* the leads of the leads slot
SlotLeads == {uploadedLeads[i] : i \in 1..Len(uploadedLeads)}

\* C21, as claimed: once a successful upload has replaced the leads slot, the results
\* slot no longer exposes records of a scoring pass made over an earlier batch: when
\* an upload has been answered with success, the results slot is empty (getResults and
\* export fail) or holds records of the leads now in the leads slot.
C21_AsClaimed ==
    (lastResponse.req = "uploadLeads" /\ lastResponse.status = "200" /\ upload.pc = "idle") =>
        (Len(controllerScoredLeads) = 0 \/ ResultLeads = SlotLeads)

\* C22: a score request made while no leads are uploaded, or while no offer is
\* defined, is answered with the precondition error; no lead is scored, no external
\* call is dispatched, and the leads, offer and results slots are left unchanged.
C22_PreconditionFailure ==
    [][ (LeadController_scoreLeads /\ (Len(uploadedLeads) = 0 \/ currentOffer = Null)) =>
            /\ lastResponse'.req = "scoreLeads"
            /\ lastResponse'.status = "400"
            /\ lastResponse'.error =
                   (IF Len(uploadedLeads) = 0 THEN "No leads uploaded" ELSE "No offer found")
            /\ UNCHANGED <<uploadedLeads, currentOffer, controllerScoredLeads>>
            /\ UNCHANGED <<entry, leads, offer, pc, idx, scoredLeads, aiLog, callLog>> ]_vars

\* leads are uploaded, no offer is defined, and the score request was refused
C22_Witness ==
    /\ lastResponse = Respond("scoreLeads", "400", "No offer found", <<>>)
    /\ Len(uploadedLeads) # 0
    /\ currentOffer = Null
    /\ Len(controllerScoredLeads) = 0
    /\ Len(callLog) = 0

\* a request body with a non-empty name, value_props and ideal_use_cases
ValidBody(body) ==
    /\ body.name.t = "string" /\ body.name.v # <<>>
    /\ body.value_props.t = "array" /\ body.value_props.v # <<>>
    /\ body.ideal_use_cases.t = "array" /\ body.ideal_use_cases.v # <<>>

\* C23: a createOffer request with a valid body replaces the current offer with that
\* body's name, value_props and ideal_use_cases; a request that fails validation
\* leaves the current offer unchanged; nothing else changes the current offer; and
\* every external call of a scoring pass is made for the offer that was current when
\* the pass started, whatever offer is created while the pass is suspended.
C23_OneOfferReplaced ==
    /\ [][ OfferController_createOffer =>
               /\ lastResponse'.req = "createOffer"
               /\ IF ValidBody(lastResponse'.input)
                  THEN /\ lastResponse'.status = "201"
                       /\ currentOffer' = [ name |-> lastResponse'.input.name,
                                            value_props |-> lastResponse'.input.value_props,
                                            ideal_use_cases |-> lastResponse'.input.ideal_use_cases ]
                  ELSE /\ lastResponse'.status = "400"
                       /\ currentOffer' = currentOffer ]_vars
    /\ [][ currentOffer' # currentOffer => OfferController_createOffer ]_vars
    /\ [][ (LeadController_scoreLeads /\ Len(uploadedLeads) # 0 /\ currentOffer # Null) =>
               offer' = currentOffer ]_vars
    /\ [][ pc = "awaiting" => offer' = offer ]_vars
    /\ [](\A c \in 1..Len(callLog) :
              callLog[c].prompt = buildPrompt(leads[callLog[c].pos], offer).value)

\* a pass has returned after two external calls, and the current offer is no longer
\* the one the pass was started with
C23_Witness ==
    /\ lastResponse = Respond("scoreLeads", "200", "", <<>>)
    /\ pc = "returned"
    /\ Len(callLog) = 2
    /\ currentOffer # offer

\* records holds exactly one record for each lead of batch
OnePerLead(records, batch) ==
    /\ Len(records) = Len(batch)
    /\ {records[i].pos : i \in 1..Len(records)} = 1..Len(batch)
    /\ \A i \in 1..Len(records) : LeadOf(records[i]) = batch[records[i].pos]

\* C25: a scoring pass works on the batch that was in the leads slot when it was
\* called: the records it stores in the results slot are exactly one per lead of that
\* batch, also when an upload has replaced the leads slot while the pass was suspended.
C25_PassKeepsItsBatch ==
    /\ (lastResponse = Respond("scoreLeads", "200", "", <<>>) /\ pc = "returned") =>
           OnePerLead(controllerScoredLeads, leads)
    /\ pc = "awaiting" => \A i \in 1..Len(scoredLeads) :
                              LeadOf(scoredLeads[i]) = leads[scoredLeads[i].pos]

\* a pass that was suspended on both leads has stored its records, and the leads slot
\* holds another batch than the one the pass was called with
C25_Witness ==
    /\ lastResponse = Respond("scoreLeads", "200", "", <<>>)
    /\ pc = "returned"
    /\ Len(callLog) = 2
    /\ upload.pc = "idle"
    /\ uploadedLeads # leads
    /\ OnePerLead(controllerScoredLeads, leads)

\* C26, as claimed: an upload request that ends with an error leaves the leads slot as
\* it was when the request arrived.
C26_AsClaimed ==
    (lastResponse.req = "uploadLeads" /\ lastResponse.status # "200" /\ upload.pc = "idle") =>
        uploadedLeads = lastResponse.input

====
